---- MODULE Spec2Model ----
(***************************************************************************)
(* Model of the FinOps agent scripts (src/agents): the month-window        *)
(* calculator month_bounds of agent_utils.py, its copy in                  *)
(* agent_pol_db_limit_002.py, and the main() run of the three entry points *)
(* from the loading of the module to the saved findings file.             *)
(*                                                                         *)
(* A datetime is a record [year, month, day, tod]: tod = 0 is local        *)
(* midnight and tod > 0 is some later instant of the same day.  All the    *)
(* datetimes of one call carry the same tzinfo object, so Python compares  *)
(* and subtracts them on their wall-clock fields only.                     *)
(***************************************************************************)
EXTENDS Integers, Sequences, FiniteSets, TLC

VARIABLES
    pc,         \* "idle", "returned" after a direct call, or the position of a main() run
    call,       \* the last direct call of a month-window function, or NoCall
    run,        \* the state of the main() run, or NoRun
    proc        \* the process of an entry point while its module loads, or NoProc

vars == <<pc, call, run, proc>>

\* Python's None, where a string or where a record is expected
None == "None"
NoValue == [kind |-> "None"]

----------------------------------------------------------------------------
(* Bounds of the model *)

\* time-of-day slots after midnight that the clock can show
MaxTod == 1

\* longest --month string drawn from Alphabet (longer ones come from Samples)
MaxArgLen == 3

\* longest agent output drawn from OutAlphabet (longer ones come from OutSamples)
MaxOutLen == 3

\* years a direct call is made with (0 and 10000 are no calendar years)
Years == {0, 1, 1900, 2000, 2023, 2024, 9999, 10000}

\* months a direct call is made with
Months == 0..13

\* years whose every day the clock can show
ClockYears == {1900, 2000, 2024}

----------------------------------------------------------------------------
(* The datetime library as used by the scripts (proleptic Gregorian)       *)

MINYEAR == 1
MAXYEAR == 9999

is_leap(year) == year % 4 = 0 /\ (year % 100 # 0 \/ year % 400 = 0)

DAYS_IN_MONTH == <<31, 28, 31, 30, 31, 30, 31, 31, 30, 31, 30, 31>>

DAYS_BEFORE_MONTH == <<0, 31, 59, 90, 120, 151, 181, 212, 243, 273, 304, 334>>

days_in_month(year, month) ==
    IF month = 2 /\ is_leap(year) THEN 29 ELSE DAYS_IN_MONTH[month]

days_before_year(year) ==
    LET y == year - 1
    IN  y * 365 + (y \div 4) - (y \div 100) + (y \div 400)

days_before_month(year, month) ==
    DAYS_BEFORE_MONTH[month] + (IF month > 2 /\ is_leap(year) THEN 1 ELSE 0)

ymd2ord(year, month, day) ==
    days_before_year(year) + days_before_month(year, month) + day

\* date.fromordinal: the 400/100/4/1-year cycle decomposition
ord2ymd(ordinal) ==
    LET n0   == ordinal - 1
        n400 == n0 \div 146097
        r400 == n0 % 146097
        n100 == r400 \div 36524
        r100 == r400 % 36524
        n4   == r100 \div 1461
        r4   == r100 % 1461
        n1   == r4 \div 365
        n    == r4 % 365
        year == n400 * 400 + 1 + n100 * 100 + n4 * 4 + n1
        leapyear == n1 = 3 /\ (n4 # 24 \/ n100 = 3)
        leap(m)  == IF m > 2 /\ leapyear THEN 1 ELSE 0
        month0   == (n + 50) \div 32
        prec0    == DAYS_BEFORE_MONTH[month0] + leap(month0)
        month    == IF prec0 > n THEN month0 - 1 ELSE month0
        prec     == IF prec0 > n
                    THEN prec0 - (DAYS_IN_MONTH[month]
                                  + (IF month = 2 /\ leapyear THEN 1 ELSE 0))
                    ELSE prec0
    IN  IF n1 = 4 \/ n100 = 4
        THEN [year |-> year - 1, month |-> 12, day |-> 31]
        ELSE [year |-> year, month |-> month, day |-> n - prec + 1]

Ok(v) == [kind |-> "ok", v |-> v]
Raise(exc) == [kind |-> "error", exc |-> exc]

\* datetime(year, month, day, tzinfo=z): _check_date_fields, then midnight
datetime(year, month, day) ==
    IF ~(MINYEAR <= year /\ year <= MAXYEAR) THEN Raise("ValueError")
    ELSE IF ~(1 <= month /\ month <= 12) THEN Raise("ValueError")
    ELSE IF ~(1 <= day /\ day <= days_in_month(year, month)) THEN Raise("ValueError")
    ELSE Ok([year |-> year, month |-> month, day |-> day, tod |-> 0])

date(dt) == [year |-> dt.year, month |-> dt.month, day |-> dt.day]

toordinal(d) == ymd2ord(d.year, d.month, d.day)

\* (a.date() - b.date()).days
date_diff_days(a, b) == toordinal(a) - toordinal(b)

\* dt - timedelta(days=1): OverflowError when the result leaves 1..MAXORDINAL
minus_one_day(dt) ==
    LET o == toordinal(dt) - 1
    IN  IF 0 < o /\ o <= ymd2ord(MAXYEAR, 12, 31)
        THEN LET d == ord2ymd(o)
             IN  Ok([year |-> d.year, month |-> d.month, day |-> d.day,
                     tod |-> dt.tod])
        ELSE Raise("OverflowError")

\* a < b for two datetimes of the same tzinfo
dt_lt(a, b) ==
    \/ a.year < b.year
    \/ a.year = b.year /\ a.month < b.month
    \/ a.year = b.year /\ a.month = b.month /\ a.day < b.day
    \/ a.year = b.year /\ a.month = b.month /\ a.day = b.day /\ a.tod < b.tod

max0(x) == IF x > 0 THEN x ELSE 0

\* the zone names the platform's time zone database resolves
KnownZones == {"Europe/Rome"}

ZoneInfo(tz) == IF tz \in KnownZones THEN Ok(tz) ELSE Raise("ZoneInfoNotFoundError")

----------------------------------------------------------------------------
(* agent_utils.month_bounds                                                *)

\* lines 17-20: the first day of the following month
first_of_next_month(year, month) ==
    IF month = 12 THEN datetime(year + 1, 1, 1)
    ELSE datetime(year, month + 1, 1)

\* lines 14-21: the zone, start and end, computed before the clock is read
month_window(year, month, tz) ==
    LET z == ZoneInfo(tz) IN
    IF z.kind # "ok" THEN z ELSE
    LET start == datetime(year, month, 1) IN
    IF start.kind # "ok" THEN start ELSE
    LET next_month == first_of_next_month(year, month) IN
    IF next_month.kind # "ok" THEN next_month ELSE
    LET end == minus_one_day(next_month.v) IN
    IF end.kind # "ok" THEN end ELSE
    Ok([tz |-> tz, start |-> start.v, end |-> end.v])

\* mutant of clamp: the upper clamp (lines 27-28) is missing
clamp_no_upper(now_tz, start, end) ==
    IF dt_lt(now_tz, start) THEN start ELSE now_tz

\* mutant of clamp: the lower clamp (lines 25-26) is missing
clamp_no_lower(now_tz, start, end) ==
    IF dt_lt(end, now_tz) THEN end ELSE now_tz

\* mutant of clamp: the upper clamp compares calendar dates, so a reading
\* later on the last day is kept
clamp_by_date(now_tz, start, end) ==
    IF dt_lt(now_tz, start) THEN start
    ELSE IF toordinal(date(end)) < toordinal(date(now_tz)) THEN end
    ELSE now_tz

\* lines 25-30: the clamp of the clock reading into [start, end]
clamp(now_tz, start, end) ==
    IF dt_lt(now_tz, start) THEN start
    ELSE IF dt_lt(end, now_tz) THEN end
    ELSE now_tz

\* lines 23-42, for a window w of month_window and the clock reading now_tz
month_bounds_body(w, now_tz) ==
    LET analysis_today == clamp(now_tz, w.start, w.end)
        days_observed  == date_diff_days(date(analysis_today), date(w.start)) + 1
        remaining_days == date_diff_days(date(w.end), date(analysis_today))
        is_month_end   == date(analysis_today) = date(w.end)
    IN  [kind |-> "ok",
         tz |-> w.tz,
         start |-> w.start,
         end |-> w.end,
         today |-> analysis_today,
         days_observed |-> max0(days_observed),
         remaining_days |-> max0(remaining_days),
         is_month_end |-> is_month_end]

----------------------------------------------------------------------------
(* agent_pol_db_limit_002.month_bounds                                     *)

\* mutant of first_of_next_month_002: the year is carried one month early
first_of_next_month_002_early_carry(year, month) ==
    datetime(year + ((month + 1) \div 12), (month % 12) + 1, 1)

\* line 59: the first day of the following month
first_of_next_month_002(year, month) ==
    datetime(year + (month \div 12), (month % 12) + 1, 1)

\* mutant of month_bounds_002: start is built with the same wrapping
\* arithmetic as next_month, so month 0 and month 13 yield a window
month_bounds_002_wrapping(year, month, tz) ==
    LET z == ZoneInfo(tz) IN
    IF z.kind # "ok" THEN z ELSE
    LET start == datetime(year + ((month - 1) \div 12), ((month - 1) % 12) + 1, 1) IN
    IF start.kind # "ok" THEN start ELSE
    LET next_month == first_of_next_month_002(year, month) IN
    IF next_month.kind # "ok" THEN next_month ELSE
    LET end == minus_one_day(next_month.v) IN
    IF end.kind # "ok" THEN end ELSE
    [kind |-> "ok", tz |-> tz, start |-> start.v, end |-> end.v]

\* lines 57-61
month_bounds_002(year, month, tz) ==
    LET z == ZoneInfo(tz) IN
    IF z.kind # "ok" THEN z ELSE
    LET start == datetime(year, month, 1) IN
    IF start.kind # "ok" THEN start ELSE
    LET next_month == first_of_next_month_002(year, month) IN
    IF next_month.kind # "ok" THEN next_month ELSE
    LET end == minus_one_day(next_month.v) IN
    IF end.kind # "ok" THEN end ELSE
    [kind |-> "ok", tz |-> tz, start |-> start.v, end |-> end.v]

----------------------------------------------------------------------------
(* The wall clock: datetime.now(z)                                         *)

FirstInstant == [year |-> MINYEAR, month |-> 1, day |-> 1, tod |-> 0]
LastInstant == [year |-> MAXYEAR, month |-> 12, day |-> 31, tod |-> MaxTod]

Clock ==
    {dt \in [year : ClockYears, month : 1..12, day : 1..31, tod : 0..MaxTod] :
        dt.day <= days_in_month(dt.year, dt.month)}
    \cup {FirstInstant, LastInstant}

\* zone names a caller passes
Zones == {"Europe/Rome", "Mars/Olympus"}

\* values a caller may try to pass as a fourth argument `now`
NowArgs == {NoValue,
            [year |-> 2024, month |-> 2, day |-> 10, tod |-> 1],
            [year |-> 2023, month |-> 3, day |-> 1, tod |-> 0]}

----------------------------------------------------------------------------
(* Direct calls of the two month-window functions                          *)

NoCall == [fn |-> None]
NoRun == [script |-> None]

\* mutant of CallMonthBounds: the function has an optional parameter `now`,
\* used instead of the clock when it is given
CallMonthBounds_now_param(year, month, tz, now_arg) ==
    /\ pc = "idle"
    /\ run = NoRun
    /\ LET base == [fn |-> "agent_utils.month_bounds", year |-> year,
                    month |-> month, tz |-> tz, now_arg |-> now_arg]
           w == month_window(year, month, tz)
       IN  IF w.kind # "ok"
           THEN call' = base @@ [clock_reads |-> 0, clock |-> NoValue, result |-> w]
           ELSE IF now_arg # NoValue
           THEN call' = base @@ [clock_reads |-> 0, clock |-> NoValue,
                                 result |-> month_bounds_body(w.v, now_arg)]
           ELSE \E now_tz \in Clock :
                    call' = base @@ [clock_reads |-> 1, clock |-> now_tz,
                                     result |-> month_bounds_body(w.v, now_tz)]
    /\ pc' = "returned"
    /\ UNCHANGED <<run, proc>>

\* agent_utils.month_bounds(year, month, tz [, now]): the signature (line 10)
\* has no parameter `now`, so a call that passes one raises TypeError before
\* the body runs; otherwise lines 14-21 run, then the clock is read (line 23)
CallMonthBounds(year, month, tz, now_arg) ==
    /\ pc = "idle"
    /\ run = NoRun
    /\ LET base == [fn |-> "agent_utils.month_bounds", year |-> year,
                    month |-> month, tz |-> tz, now_arg |-> now_arg]
           w == month_window(year, month, tz)
       IN  IF now_arg # NoValue
           THEN call' = base
                        @@ [clock_reads |-> 0, clock |-> NoValue,
                            result |-> Raise("TypeError")]
           ELSE IF w.kind # "ok"
           THEN call' = base @@ [clock_reads |-> 0, clock |-> NoValue, result |-> w]
           ELSE \E now_tz \in Clock :
                    call' = base @@ [clock_reads |-> 1, clock |-> now_tz,
                                     result |-> month_bounds_body(w.v, now_tz)]
    /\ pc' = "returned"
    /\ UNCHANGED <<run, proc>>

\* agent_pol_db_limit_002.month_bounds(year, month, tz): reads no clock
CallMonthBounds002(year, month, tz) ==
    /\ pc = "idle"
    /\ run = NoRun
    /\ call' = [fn |-> "agent_pol_db_limit_002.month_bounds", year |-> year,
                month |-> month, tz |-> tz, now_arg |-> NoValue,
                clock_reads |-> 0, clock |-> NoValue,
                result |-> month_bounds_002(year, month, tz)]
    /\ pc' = "returned"
    /\ UNCHANGED <<run, proc>>

----------------------------------------------------------------------------
(* Strings: a --month value is a sequence of one-character strings         *)

Digits == <<"0", "1", "2", "3", "4", "5", "6", "7", "8", "9">>

IsDigit(c) == \E i \in 1..10 : Digits[i] = c

DigitVal(c) == (CHOOSE i \in 1..10 : Digits[i] = c) - 1

IsSpace(c) == c = " "

RECURSIVE lstrip(_)
lstrip(s) == IF s # <<>> /\ IsSpace(Head(s)) THEN lstrip(Tail(s)) ELSE s

RECURSIVE rstrip(_)
rstrip(s) ==
    IF s # <<>> /\ IsSpace(s[Len(s)]) THEN rstrip(SubSeq(s, 1, Len(s) - 1)) ELSE s

\* str.strip()
strip(s) == rstrip(lstrip(s))

\* str.split("-"): always at least one token, empty tokens kept
RECURSIVE split_dash(_)
split_dash(s) ==
    IF \A i \in 1..Len(s) : s[i] # "-" THEN <<s>>
    ELSE LET i == CHOOSE k \in 1..Len(s) :
                      s[k] = "-" /\ \A j \in 1..(k - 1) : s[j] # "-"
         IN  <<SubSeq(s, 1, i - 1)>> \o split_dash(SubSeq(s, i + 1, Len(s)))

\* the digit part of a decimal literal: digits, single underscores between them
IsDigitPart(b) ==
    /\ b # <<>>
    /\ \A i \in 1..Len(b) : IsDigit(b[i]) \/ b[i] = "_"
    /\ IsDigit(b[1])
    /\ IsDigit(b[Len(b)])
    /\ \A i \in 1..(Len(b) - 1) : ~(b[i] = "_" /\ b[i + 1] = "_")

RECURSIVE digit_value(_, _)
digit_value(b, acc) ==
    IF b = <<>> THEN acc
    ELSE IF Head(b) = "_" THEN digit_value(Tail(b), acc)
    ELSE digit_value(Tail(b), acc * 10 + DigitVal(Head(b)))

\* int(token): surrounding whitespace stripped, an optional sign, the digit part
int_of(token) ==
    LET t == strip(token)
        signed == t # <<>> /\ Head(t) \in {"+", "-"}
        b == IF signed THEN Tail(t) ELSE t
    IN  IF ~IsDigitPart(b) THEN Raise("ValueError")
        ELSE IF signed /\ Head(t) = "-" THEN Ok(0 - digit_value(b, 0))
        ELSE Ok(digit_value(b, 0))

\* mutant of parse_month: only the first two tokens are looked at
\* (args.month.split("-")[:2])
parse_month_first_two(s) ==
    LET toks == split_dash(s)
    IN  IF Len(toks) < 2 THEN Raise("ValueError")
        ELSE IF int_of(toks[1]).kind # "ok" \/ int_of(toks[2]).kind # "ok"
        THEN Raise("ValueError")
        ELSE Ok([year |-> int_of(toks[1]).v, month |-> int_of(toks[2]).v])

\* year, month = map(int, args.month.split("-")): exactly two tokens, both
\* accepted by int(); every failure is a ValueError
parse_month(s) ==
    LET toks == split_dash(s)
    IN  IF Len(toks) # 2 THEN Raise("ValueError")
        ELSE IF int_of(toks[1]).kind # "ok" \/ int_of(toks[2]).kind # "ok"
        THEN Raise("ValueError")
        ELSE Ok([year |-> int_of(toks[1]).v, month |-> int_of(toks[2]).v])

----------------------------------------------------------------------------
(* Agent output and the findings JSON                                      *)
(*                                                                         *)
(* An output text is a sequence of tokens: the fence of three backticks,    *)
(* the language tag json (JSON) that may follow it, a run of whitespace, a *)
(* piece of Markdown, and JSON texts.  A_compact is {"a":1}; A_indent2 is  *)
(* the same object as json.dump(..., indent=2) writes it; B_indent2 is [], *)
(* which is its own indent=2 form; DEEP is arrays nested beyond the        *)
(* interpreter's recursion limit; HUGE is an integer of more digits than   *)
(* int() converts.                                                         *)

FENCE == "<fence>"

IsTag(t) == t \in {"json", "JSON"}

\* the value each JSON text decodes to
JsonValue ==
    [A_compact |-> "A", A_indent2 |-> "A", B_indent2 |-> "B",
     DEEP |-> "D", HUGE |-> "H"]

\* json.loads(payload): one JSON text decodes; anything else, the empty
\* payload included, raises JSONDecodeError; DEEP raises RecursionError and
\* HUGE raises ValueError
json_loads(payload) ==
    IF Len(payload) = 1 /\ payload[1] \in DOMAIN JsonValue
    THEN IF payload[1] = "DEEP" THEN Raise("RecursionError")
         ELSE IF payload[1] = "HUGE" THEN Raise("ValueError")
         ELSE Ok(JsonValue[payload[1]])
    ELSE Raise("JSONDecodeError")

\* json.dump(findings, jf, indent=2): the text written for a value
json_dump(value) ==
    CASE value = "A" -> <<"A_indent2">>
      [] value = "B" -> <<"B_indent2">>

\* the index of the first fence at or after position from, 0 when none
next_fence(toks, from) ==
    IF \E i \in from..Len(toks) : toks[i] = FENCE
    THEN CHOOSE i \in from..Len(toks) :
            toks[i] = FENCE /\ \A k \in from..(i - 1) : toks[k] # FENCE
    ELSE 0

\* where the text after an opening fence at i starts: after the tag, if any
body_start(toks, i) ==
    IF i < Len(toks) /\ IsTag(toks[i + 1]) THEN i + 2 ELSE i + 1

\* whether a match of the pattern can start at the fence at i
opens_block(toks, i, tag_required) ==
    /\ toks[i] = FENCE
    /\ tag_required => (i < Len(toks) /\ IsTag(toks[i + 1]))
    /\ next_fence(toks, body_start(toks, i)) # 0

\* re.findall of <fence>json\s*(.*?)\s*<fence> (tag_required) or of
\* <fence>(?:json)?\s*([\s\S]*?)\s*<fence> from position pos on: the leftmost
\* opening fence that has a closing fence, the text up to the first closing
\* fence without the whitespace around it, then on after that fence
RECURSIVE findall(_, _, _)
findall(toks, pos, tag_required) ==
    IF \A i \in pos..Len(toks) : ~opens_block(toks, i, tag_required) THEN <<>>
    ELSE LET i == CHOOSE k \in pos..Len(toks) :
                     /\ opens_block(toks, k, tag_required)
                     /\ \A m \in pos..(k - 1) : ~opens_block(toks, m, tag_required)
             b == body_start(toks, i)
             j == next_fence(toks, b)
         IN  <<strip(SubSeq(toks, b, j - 1))>> \o findall(toks, j + 1, tag_required)

\* str.strip of backticks, on tokens: the fences at both ends are dropped
RECURSIVE strip_fences(_)
strip_fences(s) ==
    IF s # <<>> /\ Head(s) = FENCE THEN strip_fences(Tail(s))
    ELSE IF s # <<>> /\ s[Len(s)] = FENCE THEN strip_fences(SubSeq(s, 1, Len(s) - 1))
    ELSE s

\* agent_pol_comp_spend_001 asks for the json tag, the other two do not
TagRequired(script) == script = "agent_pol_comp_spend_001"

\* mutant of select_block: the first block is taken
select_first_block(blocks) == blocks[1]

\* matches[-1] / blocks[-1]
select_block(blocks) == blocks[Len(blocks)]

\* payload = blocks[-1].strip(), and in 002 and 003 the defensive removal of
\* backticks echoed inside the block
payload_of(script, blocks) ==
    LET payload == strip(select_block(blocks))
    IN  IF /\ ~TagRequired(script)
           /\ payload # <<>>
           /\ Head(payload) = FENCE
           /\ payload[Len(payload)] = FENCE
        THEN strip(strip_fences(payload))
        ELSE payload

\* save_findings_json_from_result up to the decoded findings: Ok(value),
\* NoValue when the function prints a warning and returns None, or the
\* exception that json.loads raises and the except clause does not catch
findings_of(script, text) ==
    LET blocks == findall(text, 1, TagRequired(script))
    IN  IF blocks = <<>> THEN NoValue
        ELSE LET findings == json_loads(payload_of(script, blocks))
             IN  IF findings.kind = "ok" THEN findings
                 ELSE IF findings.exc = "JSONDecodeError" THEN NoValue
                 ELSE findings

\* the file name prefix each script gives its findings file
FindingsType(script) ==
    CASE script = "agent_pol_comp_spend_001" -> "oci_consumption_findings"
      [] script = "agent_pol_db_limit_002" -> "oci_db_limit_findings"
      [] script = "agent_pol_db_license_003" -> "oci_db_license_findings"

\* the findings file written for a decoded value
findings_file(script, month, timestamp, value) ==
    [kind |-> "json", name |-> <<FindingsType(script), month, timestamp>>,
     text |-> json_dump(value)]

OutAlphabet == {FENCE, "json", " ", "md", "A_compact", "B_indent2"}

\* agent outputs longer than MaxOutLen, or with tokens outside OutAlphabet
OutSamples ==
    { <<"md", " ", FENCE, "json", " ", "A_compact", " ", FENCE>>,
      <<"md", FENCE, "json", "A_indent2", FENCE, "md">>,
      <<"md", FENCE, "JSON", "A_compact", FENCE>>,
      <<FENCE, "json", "A_compact", FENCE, "md", FENCE, "json", "B_indent2", FENCE>>,
      <<FENCE, "json", "B_indent2", FENCE, "md", FENCE, "json", "A_compact", FENCE>>,
      <<FENCE, "A_compact", FENCE, "md", FENCE, "B_indent2", FENCE>>,
      <<FENCE, "md", FENCE, "json", "B_indent2", FENCE>>,
      <<FENCE, "json", "A_compact", FENCE, " ", FENCE, "md", FENCE>>,
      <<FENCE, "json", "A_compact", " ", "B_indent2", FENCE>>,
      <<"md", FENCE, "json", " ", "DEEP", " ", FENCE>>,
      <<"md", FENCE, "json", " ", "HUGE", " ", FENCE>> }

OutTexts == UNION {[1..n -> OutAlphabet] : n \in 0..MaxOutLen} \cup OutSamples

----------------------------------------------------------------------------
(* The entry points: parse_args() and main()                               *)

Scripts == {"agent_pol_comp_spend_001", "agent_pol_db_limit_002",
            "agent_pol_db_license_003"}

Alphabet == {"0", "1", "2", "-", "+", " ", "_", "x"}

\* --month values longer than MaxArgLen
Samples ==
    { <<"2", "0", "2", "4", "-", "0", "2">>,
      <<"2", "0", "2", "3", "-", "1", "2">>,
      <<"9", "9", "9", "9", "-", "1", "2">>,
      <<"2", "0", "2", "4", "-", "1", "3">>,
      <<"2", "0", "2", "4", "-", "0", "0">>,
      <<"0", "0", "0", "0", "-", "0", "1">>,
      <<"2", "0", "2", "4", "-", "2">>,
      <<"2", "0", "2", "4", "-", "0", "2", "-", "0", "1">>,
      <<"2", "0", "2", "4", "/", "0", "2">>,
      <<"2", "0", "2", "4", "0", "2">>,
      <<"2", "0", "x", "4", "-", "0", "2">>,
      <<"2", "0", "2", "4", "-", "x", "x">>,
      <<"2", "_", "0", "2", "4", "-", "0", "2">>,
      <<" ", "2", "0", "2", "4", "-", "2", " ">> }

MonthArgs == UNION {[1..n -> Alphabet] : n \in 0..MaxArgLen} \cup Samples

\* the help text's format: four digits, a dash, two digits
IsYYYYMM(s) ==
    /\ Len(s) = 7
    /\ s[5] = "-"
    /\ \A i \in {1, 2, 3, 4, 6, 7} : IsDigit(s[i])

\* the report name prefix each script passes to save_markdown_report
ReportType(script) ==
    CASE script = "agent_pol_comp_spend_001" -> "oci_consumption_report"
      [] script = "agent_pol_db_limit_002" -> "oci_db_limit_report"
      [] script = "agent_pol_db_license_003" -> "db_license_report"

\* str(result): texts crew.kickoff() can return, with and without findings
AgentOutputs ==
    { <<"md">>,
      <<"md", " ", FENCE, "json", " ", "A_compact", " ", FENCE>>,
      <<FENCE, "json", "A_compact", FENCE, "md", FENCE, "json", "B_indent2", FENCE>>,
      <<"md", FENCE, "json", "md", FENCE>>,
      <<"md", FENCE, "json", " ", "DEEP", " ", FENCE>> }

\* instants the clock can show when a report is saved
ReportClock == {[year |-> 2024, month |-> 3, day |-> 1, tod |-> 0],
                [year |-> 2024, month |-> 3, day |-> 1, tod |-> 1]}

\* the environment variables disable_crewai_telemetry sets, with its values
TelemetryEnv ==
    [CREWAI_LOGGING_ENABLED |-> "0",
     CREWAI_TELEMETRY_ENABLED |-> "0",
     CREWAI_TRACING_ENABLED |-> "0",
     CREWAI_DISABLE_EVENTS |-> "1",
     CREWAI_EVENTS_ENABLED |-> "0",
     OTEL_SDK_DISABLED |-> "true",
     OTEL_TRACES_EXPORTER |-> "none",
     OTEL_METRICS_EXPORTER |-> "none",
     OTEL_LOGS_EXPORTER |-> "none"]

TelemetryVars == DOMAIN TelemetryEnv

\* the three variables the scripts 001 and 002 assign themselves, to "false"
InlineVars == {"CREWAI_LOGGING_ENABLED", "CREWAI_TELEMETRY_ENABLED",
               "CREWAI_TRACING_ENABLED"}

\* the environment the process starts with: none of the variables is set
UnsetEnv == [v \in TelemetryVars |-> "unset"]

\* the top-level statements of each script that touch the environment or
\* import the agent framework, in source order
ModuleBody(script) ==
    CASE script = "agent_pol_comp_spend_001" ->
            <<"import crewai", "os.environ", "os.environ">>
      [] script = "agent_pol_db_limit_002" ->
            <<"import crewai", "os.environ">>
      [] script = "agent_pol_db_license_003" ->
            <<"disable_crewai_telemetry", "import crewai">>

NoProc == [script |-> None]

\* the statement the loading module executes next, or None after the last
NextStmt ==
    IF pc = "module" /\ proc.stmt <= Len(ModuleBody(proc.script))
    THEN ModuleBody(proc.script)[proc.stmt]
    ELSE None

\* python <script>.py: the module starts to load
Launch(script) ==
    /\ pc = "idle"
    /\ call = NoCall
    /\ run = NoRun
    /\ proc = NoProc
    /\ proc' = [script |-> script, stmt |-> 1, env |-> UnsetEnv,
                framework |-> FALSE, env_at_import |-> UnsetEnv]
    /\ pc' = "module"
    /\ UNCHANGED <<call, run>>

\* from crewai import ...; from crewai_tools import MCPServerAdapter
ImportFramework ==
    /\ NextStmt = "import crewai"
    /\ proc' = [proc EXCEPT !.stmt = @ + 1, !.framework = TRUE,
                            !.env_at_import = proc.env]
    /\ UNCHANGED <<pc, call, run>>

\* os.environ["CREWAI_..._ENABLED"] = "false", three assignments
SetEnvInline ==
    /\ NextStmt = "os.environ"
    /\ proc' = [proc EXCEPT !.stmt = @ + 1,
                   !.env = [v \in TelemetryVars |->
                               IF v \in InlineVars THEN "false" ELSE proc.env[v]]]
    /\ UNCHANGED <<pc, call, run>>

\* telemetry_utils.disable_crewai_telemetry()
DisableCrewaiTelemetry ==
    /\ NextStmt = "disable_crewai_telemetry"
    /\ proc' = [proc EXCEPT !.stmt = @ + 1,
                   !.env = [v \in TelemetryVars |-> TelemetryEnv[v]]]
    /\ UNCHANGED <<pc, call, run>>

\* parse_args(): argparse returns the --month value as given
ParseArgs(script, month_arg) ==
    /\ pc = "module"
    /\ proc.script = script
    /\ proc.stmt > Len(ModuleBody(script))
    /\ run = NoRun
    /\ run' = [script |-> script, month |-> month_arg, bounds |-> NoValue,
               exit |-> NoValue, bounds_calls |-> 0, clock_reads |-> 0,
               llm |-> FALSE, mcp |-> "none", result |-> <<>>,
               timestamp |-> NoValue, timestamp_reads |-> 0,
               findings |-> NoValue, files |-> {}]
    /\ pc' = "args"
    /\ UNCHANGED <<call, proc>>

SystemExit(value, exc) == [value |-> value, exc |-> exc]

\* main(): the try block that parses --month and calls month_bounds, and the
\* except clause that turns every exception into SystemExit
ParseMonth ==
    /\ pc = "args"
    /\ LET p == parse_month(run.month)
           shared == run.script # "agent_pol_db_limit_002"
       IN  IF p.kind # "ok"
           THEN /\ run' = [run EXCEPT !.exit = SystemExit(run.month, p.exc)]
                /\ pc' = "exited"
           ELSE IF ~shared
           THEN LET b == month_bounds_002(p.v.year, p.v.month, "Europe/Rome")
                IN  IF b.kind # "ok"
                    THEN /\ run' = [run EXCEPT !.bounds_calls = 1,
                                        !.exit = SystemExit(run.month, b.exc)]
                         /\ pc' = "exited"
                    ELSE /\ run' = [run EXCEPT !.bounds_calls = 1, !.bounds = b]
                         /\ pc' = "bounds"
           ELSE LET w == month_window(p.v.year, p.v.month, "Europe/Rome")
                IN  IF w.kind # "ok"
                    THEN /\ run' = [run EXCEPT !.bounds_calls = 1,
                                        !.exit = SystemExit(run.month, w.exc)]
                         /\ pc' = "exited"
                    ELSE \E now_tz \in Clock :
                         /\ run' = [run EXCEPT !.bounds_calls = 1,
                                        !.clock_reads = 1,
                                        !.bounds = month_bounds_body(w.v, now_tz)]
                         /\ pc' = "bounds"
    /\ UNCHANGED <<call, proc>>

\* main(): llm = LLM(...)
BuildLLM ==
    /\ pc = "bounds"
    /\ run' = [run EXCEPT !.llm = TRUE]
    /\ pc' = "llm"
    /\ UNCHANGED <<call, proc>>

\* main(): with MCPServerAdapter(...) as mcp_tools; a failed connection raises
ConnectMCP ==
    /\ pc = "llm"
    /\ \/ /\ run' = [run EXCEPT !.mcp = "open"]
          /\ pc' = "mcp"
       \/ /\ run' = [run EXCEPT !.mcp = "failed"]
          /\ pc' = "crashed"
    /\ UNCHANGED <<call, proc>>

\* main(): agent, task, crew, result = crew.kickoff(); the with block closes
Kickoff ==
    /\ pc = "mcp"
    /\ \/ \E out \in AgentOutputs :
            /\ run' = [run EXCEPT !.result = out, !.mcp = "closed"]
            /\ pc' = "kicked"
       \/ /\ run' = [run EXCEPT !.mcp = "closed"]
          /\ pc' = "crashed"
    /\ UNCHANGED <<call, proc>>

\* save_markdown_report(report_type, str(result), args.month, output_dir)
SaveMarkdownReport ==
    /\ pc = "kicked"
    /\ \E now \in ReportClock :
         run' = [run EXCEPT
                   !.timestamp = now,
                   !.timestamp_reads = @ + 1,
                   !.files = @ \cup {[kind |-> "md",
                                      name |-> <<ReportType(run.script),
                                                 run.month, now>>,
                                      text |-> run.result]}]
    /\ pc' = "md_saved"
    /\ UNCHANGED <<call, proc>>

\* mutant of save_findings: the timestamp passed in is ignored and the clock
\* is read again
save_findings_own_timestamp(script, text, month, timestamp, now) ==
    LET findings == findings_of(script, text)
    IN  IF findings = NoValue
        THEN [exc |-> None, path |-> NoValue, written |-> {}, clock_reads |-> 0]
        ELSE IF findings.kind = "error"
        THEN [exc |-> findings.exc, path |-> NoValue, written |-> {}, clock_reads |-> 0]
        ELSE LET f == findings_file(script, month, now, findings.v)
             IN  [exc |-> None, path |-> [name |-> f.name], written |-> {f},
                  clock_reads |-> 1]

\* save_findings_json_from_result(result_text, month, output_dir, timestamp),
\* now being what the clock shows if it is read: the exception that leaves the
\* function, the path returned (NoValue for None), the files written and the
\* number of clock reads
save_findings(script, text, month, timestamp, now) ==
    LET findings == findings_of(script, text)
    IN  IF findings = NoValue
        THEN [exc |-> None, path |-> NoValue, written |-> {}, clock_reads |-> 0]
        ELSE IF findings.kind = "error"
        THEN [exc |-> findings.exc, path |-> NoValue, written |-> {}, clock_reads |-> 0]
        ELSE LET ts == IF timestamp = NoValue THEN now ELSE timestamp
                 f == findings_file(script, month, ts, findings.v)
             IN  [exc |-> None, path |-> [name |-> f.name], written |-> {f},
                  clock_reads |-> IF timestamp = NoValue THEN 1 ELSE 0]

\* values of the timestamp argument: None, or a timestamp of an earlier report
TimestampArgs == {NoValue, [year |-> 2024, month |-> 2, day |-> 29, tod |-> 0]}

\* a direct call of a script's save_findings_json_from_result, into an empty
\* output directory
CallSaveFindings(script, text, timestamp) ==
    /\ pc = "idle"
    /\ call = NoCall
    /\ \E now \in ReportClock :
         call' = [fn |-> "save_findings_json_from_result",
                  script |-> script,
                  text |-> text,
                  timestamp |-> timestamp,
                  blocks |-> findall(text, 1, TagRequired(script)),
                  result |-> save_findings(script, text, <<"2", "0", "2", "4", "-", "0", "2">>,
                                           timestamp, now)]
    /\ pc' = "returned"
    /\ UNCHANGED <<run, proc>>

\* main(): save_findings_json_from_result(str(result), args.month, output_dir,
\* timestamp), the last statement; an exception it raises ends the run
SaveFindings ==
    /\ pc = "md_saved"
    /\ \E now \in ReportClock :
         LET r == save_findings(run.script, run.result, run.month, run.timestamp, now)
         IN  /\ run' = [run EXCEPT
                          !.findings = r,
                          !.timestamp_reads = @ + r.clock_reads,
                          !.files = @ \cup r.written]
             /\ pc' = IF r.exc = None THEN "done" ELSE "crashed"
    /\ UNCHANGED <<call, proc>>

Init ==
    /\ pc = "idle"
    /\ call = NoCall
    /\ run = NoRun
    /\ proc = NoProc

Next ==
    \/ /\ pc = "idle"
       /\ \E year \in Years, month \in Months, tz \in Zones, now_arg \in NowArgs :
             CallMonthBounds(year, month, tz, now_arg)
    \/ /\ pc = "idle"
       /\ \E year \in Years, month \in Months, tz \in Zones :
             CallMonthBounds002(year, month, tz)
    \/ /\ pc = "idle"
       /\ \E script \in Scripts, text \in OutTexts, timestamp \in TimestampArgs :
             CallSaveFindings(script, text, timestamp)
    \/ \E script \in Scripts : Launch(script)
    \/ ImportFramework
    \/ SetEnvInline
    \/ DisableCrewaiTelemetry
    \/ /\ pc = "module"
       /\ \E script \in Scripts, month_arg \in MonthArgs :
             ParseArgs(script, month_arg)
    \/ ParseMonth
    \/ BuildLLM
    \/ ConnectMCP
    \/ Kickoff
    \/ SaveMarkdownReport
    \/ SaveFindings

Spec == Init /\ [][Next]_vars

----------------------------------------------------------------------------
(* Properties                                                              *)

\* the calendar's month lengths, stated independently of the library tables
TrueMonthLength(year, month) ==
    IF month \in {4, 6, 9, 11} THEN 30
    ELSE IF month # 2 THEN 31
    ELSE IF year % 400 = 0 \/ (year % 4 = 0 /\ year % 100 # 0) THEN 29
    ELSE 28

Midnight(year, month, day) ==
    [year |-> year, month |-> month, day |-> day, tod |-> 0]

\* a direct call of agent_utils.month_bounds has ended
SharedCalled == pc = "returned" /\ call.fn = "agent_utils.month_bounds"

\* ... and returned a window
SharedReturned == SharedCalled /\ call.result.kind = "ok"

\* a direct call of the POL-DB-LIMIT-002 copy has ended
CopyCalled == pc = "returned" /\ call.fn = "agent_pol_db_limit_002.month_bounds"

\* the call was made with a calendar year, a month of 1..12, a resolvable
\* zone and no further argument
ValidCall ==
    /\ MINYEAR <= call.year /\ call.year <= MAXYEAR
    /\ call.month \in 1..12
    /\ call.tz \in KnownZones
    /\ call.now_arg = NoValue

\* C1 (as claimed): for every valid year and every month in 1..12, month_bounds
\* returns start = day 1 of the month and end = the last calendar day of that
\* month, December rolling over to January of year + 1 included, so that
\* end.date - start.date + 1 is the month's true length.
C1_EndIsLastDayOfMonth ==
    (SharedCalled /\ ValidCall) =>
        /\ call.result.kind = "ok"
        /\ call.result.start = Midnight(call.year, call.month, 1)
        /\ call.result.end =
              Midnight(call.year, call.month, TrueMonthLength(call.year, call.month))
        /\ date_diff_days(date(call.result.end), date(call.result.start)) + 1
              = TrueMonthLength(call.year, call.month)

\* C2: in every window month_bounds returns, whatever the clock showed,
\* days_observed + remaining_days is the number of days of the target month.
C2_DaysSumToMonthLength ==
    SharedReturned =>
        call.result.days_observed + call.result.remaining_days
            = TrueMonthLength(call.year, call.month)

\* C2 witness: the clock showed a day strictly inside the month, and both
\* counts are positive.
C2_Witness ==
    /\ SharedReturned
    /\ dt_lt(call.result.start, call.clock)
    /\ dt_lt(call.clock, call.result.end)
    /\ call.result.today = call.clock
    /\ call.result.days_observed > 1
    /\ call.result.remaining_days > 0

\* C3: in every window month_bounds returns, whatever the clock showed,
\* start.date() <= today.date() <= end.date().
C3_TodayInsideMonth ==
    SharedReturned =>
        /\ toordinal(date(call.result.start)) <= toordinal(date(call.result.today))
        /\ toordinal(date(call.result.today)) <= toordinal(date(call.result.end))
        /\ call.result.today.year = call.year
        /\ call.result.today.month = call.month

\* C3 witness: the clock showed a day of another year and today was clamped.
C3_Witness ==
    /\ SharedReturned
    /\ call.clock.year # call.year
    /\ call.result.today # call.clock

\* C4: in every window month_bounds returns, remaining_days >= 0, and
\* remaining_days = 0 exactly when is_month_end, which is true exactly when
\* today's calendar date is end's calendar date.
C4_RemainingZeroIffMonthEnd ==
    SharedReturned =>
        /\ call.result.remaining_days >= 0
        /\ (call.result.remaining_days = 0) <=> call.result.is_month_end
        /\ call.result.is_month_end
              <=> (date(call.result.today) = date(call.result.end))

\* C4 witness: an unclamped clock reading on the month's last day.
C4_Witness ==
    /\ SharedReturned
    /\ call.result.today = call.clock
    /\ call.result.is_month_end
    /\ call.result.remaining_days = 0

\* C5: when the clock reading follows end (later on the month's last day, or
\* any later day), today is end, days_observed is the month's length,
\* remaining_days is 0 and is_month_end is true.
C5_ClampAfterEnd ==
    (SharedReturned /\ dt_lt(call.result.end, call.clock)) =>
        /\ call.result.today = call.result.end
        /\ call.result.days_observed = TrueMonthLength(call.year, call.month)
        /\ call.result.remaining_days = 0
        /\ call.result.is_month_end

\* C5 witness: the clock showed the month's last day, after midnight.
C5_Witness ==
    /\ SharedReturned
    /\ date(call.clock) = date(call.result.end)
    /\ call.clock.tod > 0
    /\ call.result.today = call.result.end

\* C6: when the clock reading precedes start, today is start, days_observed
\* is 1, remaining_days is the month's length - 1 and is_month_end is false.
C6_ClampBeforeStart ==
    (SharedReturned /\ dt_lt(call.clock, call.result.start)) =>
        /\ call.result.today = call.result.start
        /\ call.result.days_observed = 1
        /\ call.result.remaining_days = TrueMonthLength(call.year, call.month) - 1
        /\ call.result.is_month_end = (TrueMonthLength(call.year, call.month) = 1)
        /\ ~call.result.is_month_end

\* C6 witness: the clock showed the last instant before the month began.
C6_Witness ==
    /\ SharedReturned
    /\ call.clock.tod = MaxTod
    /\ toordinal(date(call.clock)) + 1 = toordinal(date(call.result.start))
    /\ call.result.today = call.result.start

\* a main() run has passed the try block that parses --month
PastParseMonth == run # NoRun /\ pc # "args"

\* C7: a month outside 1..12 makes both month-window functions fail with an
\* error and return no window (ValueError when year and zone are valid), and
\* makes every entry point exit without a window.
C7_InvalidMonthFails ==
    /\ ((SharedCalled \/ CopyCalled) /\ call.month \notin 1..12) =>
          /\ call.result.kind = "error"
          /\ call.clock_reads = 0
          /\ (/\ MINYEAR <= call.year /\ call.year <= MAXYEAR
              /\ call.tz \in KnownZones
              /\ call.now_arg = NoValue) => call.result.exc = "ValueError"
    /\ (/\ PastParseMonth
        /\ parse_month(run.month).kind = "ok"
        /\ parse_month(run.month).v.month \notin 1..12) =>
          /\ pc = "exited"
          /\ run.bounds = NoValue
          /\ run.exit = SystemExit(run.month, "ValueError")

\* C7 witness: the POL-DB-LIMIT-002 copy was called with month 13 of a valid
\* year, where (month % 12) + 1 would wrap to February, and raised ValueError.
C7_Witness ==
    /\ CopyCalled
    /\ call.month = 13
    /\ call.year = 2024
    /\ call.tz \in KnownZones
    /\ call.result = Raise("ValueError")

\* C8 (as claimed): for every calendar year, every month in 1..12 and every
\* resolvable zone, month_bounds returns a window and does not fail.
C8_ValidCallReturnsWindow ==
    (SharedCalled /\ ValidCall) => call.result.kind = "ok"

\* C9 (as claimed): when now is supplied it is the reference instant before
\* clamping and the clock is not read; the clock is read only when now is
\* omitted.
C9_SuppliedNowUsedVerbatim ==
    /\ (/\ SharedCalled
        /\ call.now_arg # NoValue
        /\ month_window(call.year, call.month, call.tz).kind = "ok") =>
          /\ call.result.kind = "ok"
          /\ call.clock_reads = 0
          /\ call.result.today =
                clamp(call.now_arg, call.result.start, call.result.end)
    /\ (SharedCalled /\ call.clock_reads > 0) => call.now_arg = NoValue

\* C9 (amended): month_bounds has no parameter now: a call that passes one
\* raises TypeError without reading the clock; every call that returns a
\* window has read the wall clock exactly once and that reading, clamped into
\* [start, end], is today; a call that fails has not read the clock.
C9_ClockReadOnEveryWindow ==
    SharedCalled =>
        /\ call.now_arg # NoValue =>
              (call.result = Raise("TypeError") /\ call.clock_reads = 0)
        /\ call.result.kind = "ok" =>
              /\ call.now_arg = NoValue
              /\ call.clock_reads = 1
              /\ call.clock \in Clock
              /\ call.result.today =
                    (IF dt_lt(call.clock, call.result.start) THEN call.result.start
                     ELSE IF dt_lt(call.result.end, call.clock) THEN call.result.end
                     ELSE call.clock)
        /\ call.result.kind = "error" => call.clock_reads = 0

\* C9 witness: a call without now returned a window after one clock read,
\* and the reading, inside the month and after midnight, is today.
C9_Witness ==
    /\ SharedReturned
    /\ call.now_arg = NoValue
    /\ call.clock_reads = 1
    /\ call.clock.tod > 0
    /\ call.result.today = call.clock

\* an integer literal as int() takes it: spaces, an optional sign, digits
\* with single underscores between them, spaces
IsIntToken(t) ==
    \E a \in 1..Len(t), b \in 1..Len(t) :
        /\ a <= b
        /\ IsDigit(t[a])
        /\ IsDigit(t[b])
        /\ \A k \in a..b :
              IsDigit(t[k]) \/ (t[k] = "_" /\ IsDigit(t[k - 1]) /\ IsDigit(t[k + 1]))
        /\ \A k \in (b + 1)..Len(t) : t[k] = " "
        /\ \A k \in 1..(a - 1) : t[k] = " " \/ (k = a - 1 /\ t[k] = "+")

\* the value has exactly one dash, with an integer literal on each side
TwoIntTokens(s) ==
    \E d \in 1..Len(s) :
        /\ s[d] = "-"
        /\ \A k \in 1..Len(s) : s[k] = "-" => k = d
        /\ IsIntToken(SubSeq(s, 1, d - 1))
        /\ IsIntToken(SubSeq(s, d + 1, Len(s)))

\* the run ended in SystemExit naming the --month value, before any LLM
\* construction, MCP connection or report file write
ExitedEarly ==
    /\ pc = "exited"
    /\ run.exit # NoValue
    /\ run.exit.value = run.month
    /\ ~run.llm
    /\ run.mcp = "none"
    /\ run.files = {}

\* C10 (as claimed): a --month value that is not of the form YYYY-MM ends the
\* run with SystemExit naming the value before month_bounds is invoked, and
\* so before any LLM construction, MCP connection or report file write.
C10_NotYYYYMMExitsBeforeBounds ==
    (PastParseMonth /\ ~IsYYYYMM(run.month)) =>
        (ExitedEarly /\ run.bounds_calls = 0)

\* C10 (amended): a --month value that does not consist of two integer
\* literals around a single dash ends the run with SystemExit naming the
\* value before month_bounds is invoked; every other value, of the form
\* YYYY-MM or not, reaches month_bounds exactly once; and every run that
\* exits does so before any LLM construction, MCP connection or file write.
C10_UnparsableExitsBeforeBounds ==
    PastParseMonth =>
        /\ ~TwoIntTokens(run.month) => (ExitedEarly /\ run.bounds_calls = 0)
        /\ TwoIntTokens(run.month) => run.bounds_calls = 1
        /\ pc = "exited" => ExitedEarly

\* C10 witness: a run given a value with three dash-separated numbers exited
\* with ValueError without having invoked month_bounds.
C10_Witness ==
    /\ pc = "exited"
    /\ Len(run.month) = 10
    /\ run.bounds_calls = 0
    /\ run.exit = SystemExit(run.month, "ValueError")

\* the day counts of lines 31-32 before max(0, .), recomputed from the
\* returned today, start and end
RawDaysObserved ==
    date_diff_days(date(call.result.today), date(call.result.start)) + 1

RawRemainingDays ==
    date_diff_days(date(call.result.end), date(call.result.today))

\* C14: in every window month_bounds returns, the value floored into
\* days_observed is >= 1 and the value floored into remaining_days is >= 0,
\* so max(0, .) changes neither.
C14_FloorUnreachable ==
    SharedReturned =>
        /\ RawDaysObserved >= 1
        /\ RawRemainingDays >= 0
        /\ call.result.days_observed = RawDaysObserved
        /\ call.result.remaining_days = RawRemainingDays

\* C14 witness: the clock showed a day of an earlier month, where the raw
\* days_observed would be negative without the clamp.
C14_Witness ==
    /\ SharedReturned
    /\ toordinal(date(call.clock)) + 40 < toordinal(date(call.result.start))
    /\ call.result.days_observed = 1
    /\ RawDaysObserved = 1

\* C15: for every year and month, valid or not, the POL-DB-LIMIT-002 copy and
\* agent_utils.month_bounds either both return, with the same start and end,
\* or both fail; both fail for a month outside 1..12.
C15_CopyAgreesWithShared ==
    /\ CopyCalled =>
          LET w == month_window(call.year, call.month, call.tz)
          IN  /\ call.result.kind = w.kind
              /\ w.kind = "ok" =>
                    /\ call.result.start = w.v.start
                    /\ call.result.end = w.v.end
              /\ call.month \notin 1..12 => call.result.kind = "error"
    /\ (SharedCalled /\ call.now_arg = NoValue) =>
          LET c == month_bounds_002(call.year, call.month, call.tz)
          IN  /\ call.result.kind = c.kind
              /\ c.kind = "ok" =>
                    /\ call.result.start = c.start
                    /\ call.result.end = c.end
              /\ call.month \notin 1..12 => call.result.kind = "error"

\* C15 witness: the copy was called for a December, where month // 12 carries
\* into the year, and returned that December's window.
C15_Witness ==
    /\ CopyCalled
    /\ call.month = 12
    /\ call.result.kind = "ok"
    /\ call.result.start = Midnight(call.year, 12, 1)
    /\ call.result.end = Midnight(call.year, 12, 31)

\* C12 (as claimed): in every entry point, when the agent framework is
\* imported the telemetry, tracing and logging variables already hold a
\* disabling value.
C12_EnvSetBeforeFrameworkImport ==
    (proc # NoProc /\ proc.framework) =>
        \A v \in InlineVars : proc.env_at_import[v] \in {"0", "false"}


\* a direct call of a script's save_findings_json_from_result has ended
FindingsCalled == pc = "returned" /\ call.fn = "save_findings_json_from_result"

\* ... and wrote a findings file
FindingsSaved == FindingsCalled /\ call.result.written # {}

\* the last block the script's pattern matched
LastBlock == call.blocks[Len(call.blocks)]

\* what json.dump(..., indent=2) makes of each JSON text, stated independently
\* of json_loads and json_dump
IndentTwoForm ==
    [A_compact |-> "A_indent2", A_indent2 |-> "A_indent2", B_indent2 |-> "B_indent2"]

\* C11 as stated: the findings file holds the last fenced block verbatim,
\* character for character.
C11_LastBlockWrittenVerbatim ==
    FindingsSaved =>
        /\ call.blocks # <<>>
        /\ \A f \in call.result.written : f.text = LastBlock

\* C11 amended: the block selected is the last one the script's pattern matches,
\* never an earlier one, and the findings file holds the value decoded from that
\* block written anew with an indent of 2; the file equals the block character
\* for character only when the block already has that form.
C11_LastBlockReserialised ==
    FindingsSaved =>
        /\ call.blocks # <<>>
        /\ Len(LastBlock) = 1
        /\ LastBlock[1] \in DOMAIN IndentTwoForm
        /\ Cardinality(call.result.written) = 1
        /\ \A f \in call.result.written :
              /\ f.kind = "json"
              /\ f.text = <<IndentTwoForm[LastBlock[1]]>>
              /\ (f.text = LastBlock) <=> (LastBlock[1] \in {"A_indent2", "B_indent2"})

\* two blocks of different content, the last one compact: its indent=2 form is
\* written
C11_Witness ==
    /\ FindingsSaved
    /\ Len(call.blocks) = 2
    /\ call.blocks[1] = <<"B_indent2">>
    /\ LastBlock = <<"A_compact">>
    /\ \E f \in call.result.written : f.text = <<"A_indent2">>

\* C13 as stated: when no findings file comes out of the agent's output, the
\* function has returned None without raising and has written nothing, and
\* main has ended normally with the Markdown report saved.
C13_ExtractionFailureNotFatal ==
    /\ (FindingsCalled /\ call.result.path = NoValue) =>
          /\ call.result.exc = None
          /\ call.result.written = {}
    /\ (run # NoRun /\ run.timestamp # NoValue /\ pc # "md_saved"
          /\ \A f \in run.files : f.kind # "json") =>
          /\ pc = "done"
          /\ run.findings.exc = None
          /\ \E g \in run.files : g.kind = "md"

\* C16: in a run every findings file has a Markdown report of the same month
\* and the same timestamp beside it, both are the run's month and the one
\* timestamp read from the clock by save_markdown_report, and the findings
\* file comes only at the run's last step.
C16_FindingsFollowReport ==
    run # NoRun =>
        /\ \A f \in run.files : f.kind = "json" =>
              /\ pc = "done"
              /\ f.name[2] = run.month
              /\ f.name[3] = run.timestamp
              /\ \E g \in run.files :
                    /\ g.kind = "md"
                    /\ g.name[2] = f.name[2]
                    /\ g.name[3] = f.name[3]
        /\ run.timestamp_reads <= 1
        /\ (run.timestamp_reads = 1) <=> (run.timestamp # NoValue)

\* a run that ended with both files, the clock having shown the later instant
C16_Witness ==
    /\ pc = "done"
    /\ run.timestamp.tod = 1
    /\ \E f \in run.files : f.kind = "json"
    /\ \E g \in run.files : g.kind = "md"

============================================================================
